---- MODULE Spec2Model ----
(***************************************************************************)
(* Model of pdf/omni/operators.py: a table of operator-summary rows, the   *)
(* line pattern RE_LINE, and the loop that prints one map entry per row.   *)
(* Text is a sequence of one-character strings, so that the pattern and    *)
(* the print formats are computed character by character.                  *)
(***************************************************************************)
EXTENDS Integers, Sequences, FiniteSets, TLC

\* Bounds of the generic-table specification ParseSpec.
MaxRows == 2
MaxChars == 4

\* One representative per character class the pattern distinguishes:
\* an ordinary character, a digit, a blank, and the line feed (the only
\* character that `.` refuses and that `$` may step over).
Alphabet == {"a", "7", " ", "\n"}

----------------------------------------------------------------------------
\* The table, operators.py lines 2-100 (commented-out rows are not elements).
adobe_lines ==
  <<
    \* b closepath, fill, stroke Close, fill, and stroke path using nonzero winding number rule 60
    <<"b", " ", "c", "l", "o", "s", "e", "p", "a", "t", "h", ",", " ", "f",
      "i", "l", "l", ",", " ", "s", "t", "r", "o", "k", "e", " ", "C", "l",
      "o", "s", "e", ",", " ", "f", "i", "l", "l", ",", " ", "a", "n", "d",
      " ", "s", "t", "r", "o", "k", "e", " ", "p", "a", "t", "h", " ", "u",
      "s", "i", "n", "g", " ", "n", "o", "n", "z", "e", "r", "o", " ", "w",
      "i", "n", "d", "i", "n", "g", " ", "n", "u", "m", "b", "e", "r", " ",
      "r", "u", "l", "e", " ", "6", "0">>,
    \* B fill, stroke Fill and stroke path using nonzero winding number rule 60
    <<"B", " ", "f", "i", "l", "l", ",", " ", "s", "t", "r", "o", "k", "e",
      " ", "F", "i", "l", "l", " ", "a", "n", "d", " ", "s", "t", "r", "o",
      "k", "e", " ", "p", "a", "t", "h", " ", "u", "s", "i", "n", "g", " ",
      "n", "o", "n", "z", "e", "r", "o", " ", "w", "i", "n", "d", "i", "n",
      "g", " ", "n", "u", "m", "b", "e", "r", " ", "r", "u", "l", "e", " ",
      "6", "0">>,
    \* b* closepath, eofill, stroke Close, fill, and stroke path using even-odd rule 60
    <<"b", "*", " ", "c", "l", "o", "s", "e", "p", "a", "t", "h", ",", " ",
      "e", "o", "f", "i", "l", "l", ",", " ", "s", "t", "r", "o", "k", "e",
      " ", "C", "l", "o", "s", "e", ",", " ", "f", "i", "l", "l", ",", " ",
      "a", "n", "d", " ", "s", "t", "r", "o", "k", "e", " ", "p", "a", "t",
      "h", " ", "u", "s", "i", "n", "g", " ", "e", "v", "e", "n", "-", "o",
      "d", "d", " ", "r", "u", "l", "e", " ", "6", "0">>,
    \* B* eofill, stroke Fill and stroke path using even-odd rule 60
    <<"B", "*", " ", "e", "o", "f", "i", "l", "l", ",", " ", "s", "t", "r",
      "o", "k", "e", " ", "F", "i", "l", "l", " ", "a", "n", "d", " ", "s",
      "t", "r", "o", "k", "e", " ", "p", "a", "t", "h", " ", "u", "s", "i",
      "n", "g", " ", "e", "v", "e", "n", "-", "o", "d", "d", " ", "r", "u",
      "l", "e", " ", "6", "0">>,
    \* BDC (PDF 1.2) Begin marked-content sequence with property list 320
    <<"B", "D", "C", " ", "(", "P", "D", "F", " ", "1", ".", "2", ")", " ",
      "B", "e", "g", "i", "n", " ", "m", "a", "r", "k", "e", "d", "-", "c",
      "o", "n", "t", "e", "n", "t", " ", "s", "e", "q", "u", "e", "n", "c",
      "e", " ", "w", "i", "t", "h", " ", "p", "r", "o", "p", "e", "r", "t",
      "y", " ", "l", "i", "s", "t", " ", "3", "2", "0">>,
    \* BI Begin inline image object 92
    <<"B", "I", " ", "B", "e", "g", "i", "n", " ", "i", "n", "l", "i", "n",
      "e", " ", "i", "m", "a", "g", "e", " ", "o", "b", "j", "e", "c", "t",
      " ", "9", "2">>,
    \* BMC (PDF 1.2) Begin marked-content sequence 320
    <<"B", "M", "C", " ", "(", "P", "D", "F", " ", "1", ".", "2", ")", " ",
      "B", "e", "g", "i", "n", " ", "m", "a", "r", "k", "e", "d", "-", "c",
      "o", "n", "t", "e", "n", "t", " ", "s", "e", "q", "u", "e", "n", "c",
      "e", " ", "3", "2", "0">>,
    \* BT Begin text object 107
    <<"B", "T", " ", "B", "e", "g", "i", "n", " ", "t", "e", "x", "t", " ",
      "o", "b", "j", "e", "c", "t", " ", "1", "0", "7">>,
    \* BX (PDF 1.1) Begin compatibility section 32
    <<"B", "X", " ", "(", "P", "D", "F", " ", "1", ".", "1", ")", " ", "B",
      "e", "g", "i", "n", " ", "c", "o", "m", "p", "a", "t", "i", "b", "i",
      "l", "i", "t", "y", " ", "s", "e", "c", "t", "i", "o", "n", " ", "3",
      "2">>,
    \* c curveto Append curved segment to path (three control points) 59
    <<"c", " ", "c", "u", "r", "v", "e", "t", "o", " ", "A", "p", "p", "e",
      "n", "d", " ", "c", "u", "r", "v", "e", "d", " ", "s", "e", "g", "m",
      "e", "n", "t", " ", "t", "o", " ", "p", "a", "t", "h", " ", "(", "t",
      "h", "r", "e", "e", " ", "c", "o", "n", "t", "r", "o", "l", " ", "p",
      "o", "i", "n", "t", "s", ")", " ", "5", "9">>,
    \* cm concat Concatenate matrix to current transformation matrix 57
    <<"c", "m", " ", "c", "o", "n", "c", "a", "t", " ", "C", "o", "n", "c",
      "a", "t", "e", "n", "a", "t", "e", " ", "m", "a", "t", "r", "i", "x",
      " ", "t", "o", " ", "c", "u", "r", "r", "e", "n", "t", " ", "t", "r",
      "a", "n", "s", "f", "o", "r", "m", "a", "t", "i", "o", "n", " ", "m",
      "a", "t", "r", "i", "x", " ", "5", "7">>,
    \* CS setcolorspace (PDF 1.1) Set color space for stroking operations 74
    <<"C", "S", " ", "s", "e", "t", "c", "o", "l", "o", "r", "s", "p", "a",
      "c", "e", " ", "(", "P", "D", "F", " ", "1", ".", "1", ")", " ", "S",
      "e", "t", " ", "c", "o", "l", "o", "r", " ", "s", "p", "a", "c", "e",
      " ", "f", "o", "r", " ", "s", "t", "r", "o", "k", "i", "n", "g", " ",
      "o", "p", "e", "r", "a", "t", "i", "o", "n", "s", " ", "7", "4">>,
    \* cs setcolorspace (PDF 1.1) Set color space for nonstroking operations 74
    <<"c", "s", " ", "s", "e", "t", "c", "o", "l", "o", "r", "s", "p", "a",
      "c", "e", " ", "(", "P", "D", "F", " ", "1", ".", "1", ")", " ", "S",
      "e", "t", " ", "c", "o", "l", "o", "r", " ", "s", "p", "a", "c", "e",
      " ", "f", "o", "r", " ", "n", "o", "n", "s", "t", "r", "o", "k", "i",
      "n", "g", " ", "o", "p", "e", "r", "a", "t", "i", "o", "n", "s", " ",
      "7", "4">>,
    \* d setdash Set line dash pattern 57
    <<"d", " ", "s", "e", "t", "d", "a", "s", "h", " ", "S", "e", "t", " ",
      "l", "i", "n", "e", " ", "d", "a", "s", "h", " ", "p", "a", "t", "t",
      "e", "r", "n", " ", "5", "7">>,
    \* d0 setcharwidth Set glyph width in Type 3 font 113
    <<"d", "0", " ", "s", "e", "t", "c", "h", "a", "r", "w", "i", "d", "t",
      "h", " ", "S", "e", "t", " ", "g", "l", "y", "p", "h", " ", "w", "i",
      "d", "t", "h", " ", "i", "n", " ", "T", "y", "p", "e", " ", "3", " ",
      "f", "o", "n", "t", " ", "1", "1", "3">>,
    \* d1 setcachedevice Set glyph width and bounding box in Type 3 font 113
    <<"d", "1", " ", "s", "e", "t", "c", "a", "c", "h", "e", "d", "e", "v",
      "i", "c", "e", " ", "S", "e", "t", " ", "g", "l", "y", "p", "h", " ",
      "w", "i", "d", "t", "h", " ", "a", "n", "d", " ", "b", "o", "u", "n",
      "d", "i", "n", "g", " ", "b", "o", "x", " ", "i", "n", " ", "T", "y",
      "p", "e", " ", "3", " ", "f", "o", "n", "t", " ", "1", "1", "3">>,
    \* Do Invoke named XObject 87
    <<"D", "o", " ", "I", "n", "v", "o", "k", "e", " ", "n", "a", "m", "e",
      "d", " ", "X", "O", "b", "j", "e", "c", "t", " ", "8", "7">>,
    \* DP (PDF 1.2) Define marked-content point with property list 320
    <<"D", "P", " ", "(", "P", "D", "F", " ", "1", ".", "2", ")", " ", "D",
      "e", "f", "i", "n", "e", " ", "m", "a", "r", "k", "e", "d", "-", "c",
      "o", "n", "t", "e", "n", "t", " ", "p", "o", "i", "n", "t", " ", "w",
      "i", "t", "h", " ", "p", "r", "o", "p", "e", "r", "t", "y", " ", "l",
      "i", "s", "t", " ", "3", "2", "0">>,
    \* EI End inline image object 92
    <<"E", "I", " ", "E", "n", "d", " ", "i", "n", "l", "i", "n", "e", " ",
      "i", "m", "a", "g", "e", " ", "o", "b", "j", "e", "c", "t", " ", "9",
      "2">>,
    \* EMC (PDF 1.2) End marked-content sequence 320
    <<"E", "M", "C", " ", "(", "P", "D", "F", " ", "1", ".", "2", ")", " ",
      "E", "n", "d", " ", "m", "a", "r", "k", "e", "d", "-", "c", "o", "n",
      "t", "e", "n", "t", " ", "s", "e", "q", "u", "e", "n", "c", "e", " ",
      "3", "2", "0">>,
    \* ET End text object 107
    <<"E", "T", " ", "E", "n", "d", " ", "t", "e", "x", "t", " ", "o", "b",
      "j", "e", "c", "t", " ", "1", "0", "7">>,
    \* EX (PDF 1.1) End compatibility section 32
    <<"E", "X", " ", "(", "P", "D", "F", " ", "1", ".", "1", ")", " ", "E",
      "n", "d", " ", "c", "o", "m", "p", "a", "t", "i", "b", "i", "l", "i",
      "t", "y", " ", "s", "e", "c", "t", "i", "o", "n", " ", "3", "2">>,
    \* f fill Fill path using nonzero winding number rule 60
    <<"f", " ", "f", "i", "l", "l", " ", "F", "i", "l", "l", " ", "p", "a",
      "t", "h", " ", "u", "s", "i", "n", "g", " ", "n", "o", "n", "z", "e",
      "r", "o", " ", "w", "i", "n", "d", "i", "n", "g", " ", "n", "u", "m",
      "b", "e", "r", " ", "r", "u", "l", "e", " ", "6", "0">>,
    \* F fill Fill path using nonzero winding number rule (obsolete) 60
    <<"F", " ", "f", "i", "l", "l", " ", "F", "i", "l", "l", " ", "p", "a",
      "t", "h", " ", "u", "s", "i", "n", "g", " ", "n", "o", "n", "z", "e",
      "r", "o", " ", "w", "i", "n", "d", "i", "n", "g", " ", "n", "u", "m",
      "b", "e", "r", " ", "r", "u", "l", "e", " ", "(", "o", "b", "s", "o",
      "l", "e", "t", "e", ")", " ", "6", "0">>,
    \* f* eofill Fill path using even-odd rule 60
    <<"f", "*", " ", "e", "o", "f", "i", "l", "l", " ", "F", "i", "l", "l",
      " ", "p", "a", "t", "h", " ", "u", "s", "i", "n", "g", " ", "e", "v",
      "e", "n", "-", "o", "d", "d", " ", "r", "u", "l", "e", " ", "6", "0">>,
    \* G setgray Set gray level for stroking operations 74
    <<"G", " ", "s", "e", "t", "g", "r", "a", "y", " ", "S", "e", "t", " ",
      "g", "r", "a", "y", " ", "l", "e", "v", "e", "l", " ", "f", "o", "r",
      " ", "s", "t", "r", "o", "k", "i", "n", "g", " ", "o", "p", "e", "r",
      "a", "t", "i", "o", "n", "s", " ", "7", "4">>,
    \* g setgray Set gray level for nonstroking operations 74
    <<"g", " ", "s", "e", "t", "g", "r", "a", "y", " ", "S", "e", "t", " ",
      "g", "r", "a", "y", " ", "l", "e", "v", "e", "l", " ", "f", "o", "r",
      " ", "n", "o", "n", "s", "t", "r", "o", "k", "i", "n", "g", " ", "o",
      "p", "e", "r", "a", "t", "i", "o", "n", "s", " ", "7", "4">>,
    \* gs (PDF 1.2) Set parameters from graphics state parameter dictionary 57
    <<"g", "s", " ", "(", "P", "D", "F", " ", "1", ".", "2", ")", " ", "S",
      "e", "t", " ", "p", "a", "r", "a", "m", "e", "t", "e", "r", "s", " ",
      "f", "r", "o", "m", " ", "g", "r", "a", "p", "h", "i", "c", "s", " ",
      "s", "t", "a", "t", "e", " ", "p", "a", "r", "a", "m", "e", "t", "e",
      "r", " ", "d", "i", "c", "t", "i", "o", "n", "a", "r", "y", " ", "5",
      "7">>,
    \* h closepath Close subpath 59
    <<"h", " ", "c", "l", "o", "s", "e", "p", "a", "t", "h", " ", "C", "l",
      "o", "s", "e", " ", "s", "u", "b", "p", "a", "t", "h", " ", "5", "9">>,
    \* i setflat Set flatness tolerance 57
    <<"i", " ", "s", "e", "t", "f", "l", "a", "t", " ", "S", "e", "t", " ",
      "f", "l", "a", "t", "n", "e", "s", "s", " ", "t", "o", "l", "e", "r",
      "a", "n", "c", "e", " ", "5", "7">>,
    \* ID Begin inline image data 92
    <<"I", "D", " ", "B", "e", "g", "i", "n", " ", "i", "n", "l", "i", "n",
      "e", " ", "i", "m", "a", "g", "e", " ", "d", "a", "t", "a", " ", "9",
      "2">>,
    \* j setlinejoin Set line join style 57
    <<"j", " ", "s", "e", "t", "l", "i", "n", "e", "j", "o", "i", "n", " ",
      "S", "e", "t", " ", "l", "i", "n", "e", " ", "j", "o", "i", "n", " ",
      "s", "t", "y", "l", "e", " ", "5", "7">>,
    \* J setlinecap Set line cap style 57
    <<"J", " ", "s", "e", "t", "l", "i", "n", "e", "c", "a", "p", " ", "S",
      "e", "t", " ", "l", "i", "n", "e", " ", "c", "a", "p", " ", "s", "t",
      "y", "l", "e", " ", "5", "7">>,
    \* K setcmykcolor Set CMYK color for stroking operations 74
    <<"K", " ", "s", "e", "t", "c", "m", "y", "k", "c", "o", "l", "o", "r",
      " ", "S", "e", "t", " ", "C", "M", "Y", "K", " ", "c", "o", "l", "o",
      "r", " ", "f", "o", "r", " ", "s", "t", "r", "o", "k", "i", "n", "g",
      " ", "o", "p", "e", "r", "a", "t", "i", "o", "n", "s", " ", "7", "4">>,
    \* k setcmykcolor Set CMYK color for nonstroking operations 74
    <<"k", " ", "s", "e", "t", "c", "m", "y", "k", "c", "o", "l", "o", "r",
      " ", "S", "e", "t", " ", "C", "M", "Y", "K", " ", "c", "o", "l", "o",
      "r", " ", "f", "o", "r", " ", "n", "o", "n", "s", "t", "r", "o", "k",
      "i", "n", "g", " ", "o", "p", "e", "r", "a", "t", "i", "o", "n", "s",
      " ", "7", "4">>,
    \* l lineto Append straight line segment to path 59
    <<"l", " ", "l", "i", "n", "e", "t", "o", " ", "A", "p", "p", "e", "n",
      "d", " ", "s", "t", "r", "a", "i", "g", "h", "t", " ", "l", "i", "n",
      "e", " ", "s", "e", "g", "m", "e", "n", "t", " ", "t", "o", " ", "p",
      "a", "t", "h", " ", "5", "9">>,
    \* m moveto Begin new subpath 59
    <<"m", " ", "m", "o", "v", "e", "t", "o", " ", "B", "e", "g", "i", "n",
      " ", "n", "e", "w", " ", "s", "u", "b", "p", "a", "t", "h", " ", "5",
      "9">>,
    \* M setmiterlimit Set miter limit 57
    <<"M", " ", "s", "e", "t", "m", "i", "t", "e", "r", "l", "i", "m", "i",
      "t", " ", "S", "e", "t", " ", "m", "i", "t", "e", "r", " ", "l", "i",
      "m", "i", "t", " ", "5", "7">>,
    \* MP (PDF 1.2) Define marked-content point 320
    <<"M", "P", " ", "(", "P", "D", "F", " ", "1", ".", "2", ")", " ", "D",
      "e", "f", "i", "n", "e", " ", "m", "a", "r", "k", "e", "d", "-", "c",
      "o", "n", "t", "e", "n", "t", " ", "p", "o", "i", "n", "t", " ", "3",
      "2", "0">>,
    \* n End path without filling or stroking 60
    <<"n", " ", "E", "n", "d", " ", "p", "a", "t", "h", " ", "w", "i", "t",
      "h", "o", "u", "t", " ", "f", "i", "l", "l", "i", "n", "g", " ", "o",
      "r", " ", "s", "t", "r", "o", "k", "i", "n", "g", " ", "6", "0">>,
    \* q gsave Save graphics state 57
    <<"q", " ", "g", "s", "a", "v", "e", " ", "S", "a", "v", "e", " ", "g",
      "r", "a", "p", "h", "i", "c", "s", " ", "s", "t", "a", "t", "e", " ",
      "5", "7">>,
    \* Q grestore Restore graphics state 57
    <<"Q", " ", "g", "r", "e", "s", "t", "o", "r", "e", " ", "R", "e", "s",
      "t", "o", "r", "e", " ", "g", "r", "a", "p", "h", "i", "c", "s", " ",
      "s", "t", "a", "t", "e", " ", "5", "7">>,
    \* re Append rectangle to path 59
    <<"r", "e", " ", "A", "p", "p", "e", "n", "d", " ", "r", "e", "c", "t",
      "a", "n", "g", "l", "e", " ", "t", "o", " ", "p", "a", "t", "h", " ",
      "5", "9">>,
    \* RG setrgbcolor Set RGB color for stroking operations 74
    <<"R", "G", " ", "s", "e", "t", "r", "g", "b", "c", "o", "l", "o", "r",
      " ", "S", "e", "t", " ", "R", "G", "B", " ", "c", "o", "l", "o", "r",
      " ", "f", "o", "r", " ", "s", "t", "r", "o", "k", "i", "n", "g", " ",
      "o", "p", "e", "r", "a", "t", "i", "o", "n", "s", " ", "7", "4">>,
    \* rg setrgbcolor Set RGB color for nonstroking operations 74
    <<"r", "g", " ", "s", "e", "t", "r", "g", "b", "c", "o", "l", "o", "r",
      " ", "S", "e", "t", " ", "R", "G", "B", " ", "c", "o", "l", "o", "r",
      " ", "f", "o", "r", " ", "n", "o", "n", "s", "t", "r", "o", "k", "i",
      "n", "g", " ", "o", "p", "e", "r", "a", "t", "i", "o", "n", "s", " ",
      "7", "4">>,
    \* ri Set color rendering intent 57
    <<"r", "i", " ", "S", "e", "t", " ", "c", "o", "l", "o", "r", " ", "r",
      "e", "n", "d", "e", "r", "i", "n", "g", " ", "i", "n", "t", "e", "n",
      "t", " ", "5", "7">>,
    \* s closepath, stroke Close and stroke path 60
    <<"s", " ", "c", "l", "o", "s", "e", "p", "a", "t", "h", ",", " ", "s",
      "t", "r", "o", "k", "e", " ", "C", "l", "o", "s", "e", " ", "a", "n",
      "d", " ", "s", "t", "r", "o", "k", "e", " ", "p", "a", "t", "h", " ",
      "6", "0">>,
    \* S stroke Stroke path 60
    <<"S", " ", "s", "t", "r", "o", "k", "e", " ", "S", "t", "r", "o", "k",
      "e", " ", "p", "a", "t", "h", " ", "6", "0">>,
    \* SC setcolor (PDF 1.1) Set color for stroking operations 74
    <<"S", "C", " ", "s", "e", "t", "c", "o", "l", "o", "r", " ", "(", "P",
      "D", "F", " ", "1", ".", "1", ")", " ", "S", "e", "t", " ", "c", "o",
      "l", "o", "r", " ", "f", "o", "r", " ", "s", "t", "r", "o", "k", "i",
      "n", "g", " ", "o", "p", "e", "r", "a", "t", "i", "o", "n", "s", " ",
      "7", "4">>,
    \* sc setcolor (PDF 1.1) Set color for nonstroking operations 74
    <<"s", "c", " ", "s", "e", "t", "c", "o", "l", "o", "r", " ", "(", "P",
      "D", "F", " ", "1", ".", "1", ")", " ", "S", "e", "t", " ", "c", "o",
      "l", "o", "r", " ", "f", "o", "r", " ", "n", "o", "n", "s", "t", "r",
      "o", "k", "i", "n", "g", " ", "o", "p", "e", "r", "a", "t", "i", "o",
      "n", "s", " ", "7", "4">>,
    \* SCN setcolor (PDF 1.2) Set color for stroking operations (ICCBased and special colour spaces) 74
    <<"S", "C", "N", " ", "s", "e", "t", "c", "o", "l", "o", "r", " ", "(",
      "P", "D", "F", " ", "1", ".", "2", ")", " ", "S", "e", "t", " ", "c",
      "o", "l", "o", "r", " ", "f", "o", "r", " ", "s", "t", "r", "o", "k",
      "i", "n", "g", " ", "o", "p", "e", "r", "a", "t", "i", "o", "n", "s",
      " ", "(", "I", "C", "C", "B", "a", "s", "e", "d", " ", "a", "n", "d",
      " ", "s", "p", "e", "c", "i", "a", "l", " ", "c", "o", "l", "o", "u",
      "r", " ", "s", "p", "a", "c", "e", "s", ")", " ", "7", "4">>,
    \* scn setcolor (PDF 1.2) Set color for nonstroking operations (ICCBased and special colour spaces) 74
    <<"s", "c", "n", " ", "s", "e", "t", "c", "o", "l", "o", "r", " ", "(",
      "P", "D", "F", " ", "1", ".", "2", ")", " ", "S", "e", "t", " ", "c",
      "o", "l", "o", "r", " ", "f", "o", "r", " ", "n", "o", "n", "s", "t",
      "r", "o", "k", "i", "n", "g", " ", "o", "p", "e", "r", "a", "t", "i",
      "o", "n", "s", " ", "(", "I", "C", "C", "B", "a", "s", "e", "d", " ",
      "a", "n", "d", " ", "s", "p", "e", "c", "i", "a", "l", " ", "c", "o",
      "l", "o", "u", "r", " ", "s", "p", "a", "c", "e", "s", ")", " ", "7",
      "4">>,
    \* sh shfill (PDF 1.3) Paint area defined by shading pattern 77
    <<"s", "h", " ", "s", "h", "f", "i", "l", "l", " ", "(", "P", "D", "F",
      " ", "1", ".", "3", ")", " ", "P", "a", "i", "n", "t", " ", "a", "r",
      "e", "a", " ", "d", "e", "f", "i", "n", "e", "d", " ", "b", "y", " ",
      "s", "h", "a", "d", "i", "n", "g", " ", "p", "a", "t", "t", "e", "r",
      "n", " ", "7", "7">>,
    \* T* Move to start of next text line 108
    <<"T", "*", " ", "M", "o", "v", "e", " ", "t", "o", " ", "s", "t", "a",
      "r", "t", " ", "o", "f", " ", "n", "e", "x", "t", " ", "t", "e", "x",
      "t", " ", "l", "i", "n", "e", " ", "1", "0", "8">>,
    \* Tc Set character spacing
    <<"T", "c", " ", "S", "e", "t", " ", "c", "h", "a", "r", "a", "c", "t",
      "e", "r", " ", "s", "p", "a", "c", "i", "n", "g">>,
    \* Td Move text position 108
    <<"T", "d", " ", "M", "o", "v", "e", " ", "t", "e", "x", "t", " ", "p",
      "o", "s", "i", "t", "i", "o", "n", " ", "1", "0", "8">>,
    \* TD Move text position and set leading 108
    <<"T", "D", " ", "M", "o", "v", "e", " ", "t", "e", "x", "t", " ", "p",
      "o", "s", "i", "t", "i", "o", "n", " ", "a", "n", "d", " ", "s", "e",
      "t", " ", "l", "e", "a", "d", "i", "n", "g", " ", "1", "0", "8">>,
    \* Tf selectfont Set text font and size
    <<"T", "f", " ", "s", "e", "l", "e", "c", "t", "f", "o", "n", "t", " ",
      "S", "e", "t", " ", "t", "e", "x", "t", " ", "f", "o", "n", "t", " ",
      "a", "n", "d", " ", "s", "i", "z", "e">>,
    \* Tj show Show text 109
    <<"T", "j", " ", "s", "h", "o", "w", " ", "S", "h", "o", "w", " ", "t",
      "e", "x", "t", " ", "1", "0", "9">>,
    \* TJ Show text, allowing individual glyph positioning 109
    <<"T", "J", " ", "S", "h", "o", "w", " ", "t", "e", "x", "t", ",", " ",
      "a", "l", "l", "o", "w", "i", "n", "g", " ", "i", "n", "d", "i", "v",
      "i", "d", "u", "a", "l", " ", "g", "l", "y", "p", "h", " ", "p", "o",
      "s", "i", "t", "i", "o", "n", "i", "n", "g", " ", "1", "0", "9">>,
    \* TL Set text leading
    <<"T", "L", " ", "S", "e", "t", " ", "t", "e", "x", "t", " ", "l", "e",
      "a", "d", "i", "n", "g">>,
    \* Tm Set text matrix and text line matrix 108
    <<"T", "m", " ", "S", "e", "t", " ", "t", "e", "x", "t", " ", "m", "a",
      "t", "r", "i", "x", " ", "a", "n", "d", " ", "t", "e", "x", "t", " ",
      "l", "i", "n", "e", " ", "m", "a", "t", "r", "i", "x", " ", "1", "0",
      "8">>,
    \* Tr Set text rendering mode
    <<"T", "r", " ", "S", "e", "t", " ", "t", "e", "x", "t", " ", "r", "e",
      "n", "d", "e", "r", "i", "n", "g", " ", "m", "o", "d", "e">>,
    \* Ts Set text rise
    <<"T", "s", " ", "S", "e", "t", " ", "t", "e", "x", "t", " ", "r", "i",
      "s", "e">>,
    \* Tw Set word spacing
    <<"T", "w", " ", "S", "e", "t", " ", "w", "o", "r", "d", " ", "s", "p",
      "a", "c", "i", "n", "g">>,
    \* Tz Set horizontal text scaling
    <<"T", "z", " ", "S", "e", "t", " ", "h", "o", "r", "i", "z", "o", "n",
      "t", "a", "l", " ", "t", "e", "x", "t", " ", "s", "c", "a", "l", "i",
      "n", "g">>,
    \* v curveto Append curved segment to path (initial point replicated) 59
    <<"v", " ", "c", "u", "r", "v", "e", "t", "o", " ", "A", "p", "p", "e",
      "n", "d", " ", "c", "u", "r", "v", "e", "d", " ", "s", "e", "g", "m",
      "e", "n", "t", " ", "t", "o", " ", "p", "a", "t", "h", " ", "(", "i",
      "n", "i", "t", "i", "a", "l", " ", "p", "o", "i", "n", "t", " ", "r",
      "e", "p", "l", "i", "c", "a", "t", "e", "d", ")", " ", "5", "9">>,
    \* w setlinewidth Set line width 57
    <<"w", " ", "s", "e", "t", "l", "i", "n", "e", "w", "i", "d", "t", "h",
      " ", "S", "e", "t", " ", "l", "i", "n", "e", " ", "w", "i", "d", "t",
      "h", " ", "5", "7">>,
    \* W clip Set clipping path using nonzero winding number rule 61
    <<"W", " ", "c", "l", "i", "p", " ", "S", "e", "t", " ", "c", "l", "i",
      "p", "p", "i", "n", "g", " ", "p", "a", "t", "h", " ", "u", "s", "i",
      "n", "g", " ", "n", "o", "n", "z", "e", "r", "o", " ", "w", "i", "n",
      "d", "i", "n", "g", " ", "n", "u", "m", "b", "e", "r", " ", "r", "u",
      "l", "e", " ", "6", "1">>,
    \* W* eoclip Set clipping path using even-odd rule 61
    <<"W", "*", " ", "e", "o", "c", "l", "i", "p", " ", "S", "e", "t", " ",
      "c", "l", "i", "p", "p", "i", "n", "g", " ", "p", "a", "t", "h", " ",
      "u", "s", "i", "n", "g", " ", "e", "v", "e", "n", "-", "o", "d", "d",
      " ", "r", "u", "l", "e", " ", "6", "1">>,
    \* y curveto Append curved segment to path (final point replicated) 59
    <<"y", " ", "c", "u", "r", "v", "e", "t", "o", " ", "A", "p", "p", "e",
      "n", "d", " ", "c", "u", "r", "v", "e", "d", " ", "s", "e", "g", "m",
      "e", "n", "t", " ", "t", "o", " ", "p", "a", "t", "h", " ", "(", "f",
      "i", "n", "a", "l", " ", "p", "o", "i", "n", "t", " ", "r", "e", "p",
      "l", "i", "c", "a", "t", "e", "d", ")", " ", "5", "9">>,
    \* ' Move to next line and show text 109
    <<"'", " ", "M", "o", "v", "e", " ", "t", "o", " ", "n", "e", "x", "t",
      " ", "l", "i", "n", "e", " ", "a", "n", "d", " ", "s", "h", "o", "w",
      " ", "t", "e", "x", "t", " ", "1", "0", "9">>,
    \* " Set word and character spacing, move to next line, and show text 109
    <<"\"", " ", "S", "e", "t", " ", "w", "o", "r", "d", " ", "a", "n", "d",
      " ", "c", "h", "a", "r", "a", "c", "t", "e", "r", " ", "s", "p", "a",
      "c", "i", "n", "g", ",", " ", "m", "o", "v", "e", " ", "t", "o", " ",
      "n", "e", "x", "t", " ", "l", "i", "n", "e", ",", " ", "a", "n", "d",
      " ", "s", "h", "o", "w", " ", "t", "e", "x", "t", " ", "1", "0", "9">>
  >>

----------------------------------------------------------------------------
\* Character classes of the re module for str patterns.
IsSpace(c) == c \in {" ", "\t", "\n", "\r", "\f"}

IsDigit(c) == c \in {"0", "1", "2", "3", "4", "5", "6", "7", "8", "9"}

\* `.` without DOTALL: anything but a line feed.
IsDot(c) == c # "\n"

\* \s in place of \s+: one blank only.
SpaceRunOne(s, p) ==
  IF p < Len(s) /\ IsSpace(s[p + 1]) THEN 1 ELSE 0

\* Positions are 0..Len(s); position p lies before character s[p+1].
RECURSIVE SpaceRun(_, _)
SpaceRun(s, p) ==
  IF p < Len(s) /\ IsSpace(s[p + 1]) THEN 1 + SpaceRun(s, p + 1) ELSE 0

\* \d in place of \d+: one digit only.
DigitRunOne(s, p) ==
  IF p < Len(s) /\ IsDigit(s[p + 1]) THEN 1 ELSE 0

RECURSIVE DigitRun(_, _)
DigitRun(s, p) ==
  IF p < Len(s) /\ IsDigit(s[p + 1]) THEN 1 + DigitRun(s, p + 1) ELSE 0

\* `$` without MULTILINE: at the end, or just before a final line feed.
AtEnd(s, p) ==
  \/ p = Len(s)
  \/ p = Len(s) - 1 /\ s[Len(s)] = "\n"

\* A failed attempt.
NoPos == -1

\* (\d+) in place of (\d+)?: the page group may not be skipped.
RECURSIVE TryPageRequired(_, _, _)
TryPageRequired(s, c, e) ==
  IF e <= c THEN NoPos
  ELSE IF AtEnd(s, e) THEN e
  ELSE TryPageRequired(s, c, e - 1)

\* (\d+)?$ from position c: greedy, longest run first, then the group
\* skipped.  The value is the position where the match ends, e = c when the
\* group did not take part.
RECURSIVE TryPage(_, _, _)
TryPage(s, c, e) ==
  IF AtEnd(s, e) THEN e
  ELSE IF e > c THEN TryPage(s, c, e - 1)
  ELSE NoPos

\* The least element of a non-empty set of positions.
Least(S) == CHOOSE x \in S : \A y \in S : x <= y

\* How far `.` can run from position b: up to the next line feed.
DotLimit(s, b) ==
  LET stops == {k \in (b + 1)..Len(s) : ~IsDot(s[k])}
  IN IF stops = {} THEN Len(s) ELSE Least(stops) - 1

\* (.*?) from position b, then the page group: lazy, so of the lengths that
\* let the rest match, the shortest.
TryMiddle(s, b) ==
  LET good == {c \in b..DotLimit(s, b) :
                 TryPage(s, c, c + DigitRun(s, c)) # NoPos}
  IN IF good = {} THEN <<>>
     ELSE LET c == Least(good)
          IN <<c, TryPage(s, c, c + DigitRun(s, c))>>

\* \s* in place of \s+: the separator may be empty.
RECURSIVE TrySpacesStar(_, _, _)
TrySpacesStar(s, a, b) ==
  IF b < a THEN <<>>
  ELSE LET r == TryMiddle(s, b)
       IN IF r # <<>> THEN <<b>> \o r ELSE TrySpacesStar(s, a, b - 1)

\* \s+ from position a, then the rest: greedy, giving characters back one
\* at a time, but never all of them.
RECURSIVE TrySpaces(_, _, _)
TrySpaces(s, a, b) ==
  IF b <= a THEN <<>>
  ELSE LET r == TryMiddle(s, b)
       IN IF r # <<>> THEN <<b>> \o r ELSE TrySpaces(s, a, b - 1)

\* ^(.*?) then the rest: lazy, shortest first.
RECURSIVE TryName(_, _)
TryName(s, a) ==
  LET r == TrySpaces(s, a, a + SpaceRun(s, a))
  IN IF r # <<>> THEN <<a>> \o r
     ELSE IF a < Len(s) /\ IsDot(s[a + 1]) THEN TryName(s, a + 1)
     ELSE <<>>

\* The value of a search that found nothing (Python's None).
None == [matched |-> FALSE, g1 |-> <<>>, g2 |-> <<>>, g3 |-> <<>>, has3 |-> FALSE]

\* The match object for positions <<a, b, c, e>>: group 1 is s[1..a], group 2
\* is s[b+1..c], group 3 is s[c+1..e] and is None when it took no part.
MatchObject(s, r) ==
  [matched |-> TRUE,
   g1 |-> SubSeq(s, 1, r[1]),
   g2 |-> SubSeq(s, r[2] + 1, r[3]),
   g3 |-> SubSeq(s, r[3] + 1, r[4]),
   has3 |-> r[4] > r[3]]

\* RE_LINE.search(s).  The pattern starts with ^ and is compiled without
\* MULTILINE, so only the attempt at position 0 can succeed.
Search(s) ==
  LET r == TryName(s, 0)
  IN IF r = <<>> THEN None ELSE MatchObject(s, r)

----------------------------------------------------------------------------
\* Formatting.
DigitChar(d) == <<"0", "1", "2", "3", "4", "5", "6", "7", "8", "9">>[d + 1]

\* '%d' of a natural number.
RECURSIVE FmtD(_)
FmtD(n) ==
  IF n < 10 THEN <<DigitChar(n)>> ELSE FmtD(n \div 10) \o <<DigitChar(n % 10)>>

Blanks(k) == [j \in 1..k |-> " "]

\* '%-3d' in place of '%3d': padded on the right.
Fmt3dLeft(n) ==
  LET d == FmtD(n)
  IN IF Len(d) < 3 THEN d \o Blanks(3 - Len(d)) ELSE d

\* '%3d': padded with blanks on the left to at least three columns.
Fmt3d(n) ==
  LET d == FmtD(n)
  IN IF Len(d) < 3 THEN Blanks(3 - Len(d)) \o d ELSE d

\* '%d lines' % len(adobe_lines)
CountLine(n) == FmtD(n) \o <<" ", "l", "i", "n", "e", "s">>

\* 'var markingOperators = map[string]bool{'
HeaderLine ==
  <<"v", "a", "r", " ", "m", "a", "r", "k", "i", "n", "g", "O", "p", "e", "r",
    "a", "t", "o", "r", "s", " ", "=", " ", "m", "a", "p", "[", "s", "t", "r",
    "i", "n", "g", "]", "b", "o", "o", "l", "{">>

\* The grave accent U+0060.  The TLA+ lexer does not accept that character
\* inside a string, so a two-letter token stands for it; characters are only
\* ever compared, and no row of the table contains one.
Grave == "U+0060"

\* '}'
FooterLine == <<"}">>

\* The page number printed after the middle text.
FormatRowWithPage(mo, idx) ==
  <<"\t", Grave>> \o mo.g1
    \o <<Grave, ":", " ", "f", "a", "l", "s", "e", ",", " ", " ", "/", "/", " ">>
    \o Fmt3d(idx) \o <<":", " ">> \o mo.g2 \o mo.g3

\* '\t`%s`: false,  // %3d: %s' % (m.group(1), i, m.group(2))
FormatRow(mo, idx) ==
  <<"\t", Grave>> \o mo.g1
    \o <<Grave, ":", " ", "f", "a", "l", "s", "e", ",", " ", " ", "/", "/", " ">>
    \o Fmt3d(idx) \o <<":", " ">> \o mo.g2

----------------------------------------------------------------------------
\* State of one run.
\*   table  the list adobe_lines
\*   pc     the statement about to run
\*   it     how many elements enumerate() has handed out
\*   i, line, m   the module-level names bound by the loop
\*   out    the texts print() wrote to standard output, one per call; print
\*          ends each with a line feed
VARIABLES table, pc, it, i, line, m, out

vars == <<table, pc, it, i, line, m, out>>

\* i before the loop binds it.
Unbound == -1

Start(t) ==
  /\ table = t
  /\ pc = "count"
  /\ it = 0
  /\ i = Unbound
  /\ line = <<>>
  /\ m = None
  /\ out = <<>>

\* The program as written.
Init == Start(adobe_lines)

\* Rows of at most n characters.
RowsUpTo(n) == UNION {[1..l -> Alphabet] : l \in 0..n}

\* Tables of at most r rows holding at most n characters in all.
RECURSIVE TablesUpTo(_, _)
TablesUpTo(r, n) ==
  IF r = 0 THEN {<<>>}
  ELSE {<<>>} \cup
       UNION {{<<row>> \o t : t \in TablesUpTo(r - 1, n - Len(row))} :
              row \in RowsUpTo(n)}

\* The same program over the table as written or over any small table.
InitAny == \E t \in {adobe_lines} \cup TablesUpTo(MaxRows, MaxChars) : Start(t)

\* Line 102 left out.
PrintCountSilent ==
  /\ pc = "count"
  /\ pc' = "header"
  /\ UNCHANGED <<table, it, i, line, m, out>>

\* line 102
PrintCount ==
  /\ pc = "count"
  /\ out' = Append(out, CountLine(Len(table)))
  /\ pc' = "header"
  /\ UNCHANGED <<table, it, i, line, m>>

\* line 110
PrintHeader ==
  /\ pc = "header"
  /\ out' = Append(out, HeaderLine)
  /\ pc' = "loop"
  /\ UNCHANGED <<table, it, i, line, m>>

\* enumerate(adobe_lines, 1) in place of enumerate(adobe_lines).
ForNextFromOne ==
  /\ pc = "loop"
  /\ IF it < Len(table)
       THEN /\ i' = it + 1
            /\ line' = table[it + 1]
            /\ it' = it + 1
            /\ pc' = "search"
       ELSE /\ pc' = "footer"
            /\ UNCHANGED <<it, i, line>>
  /\ UNCHANGED <<table, m, out>>

\* line 111: the next (i, line) of enumerate(adobe_lines), or the loop ends.
ForNext ==
  /\ pc = "loop"
  /\ IF it < Len(table)
       THEN /\ i' = it
            /\ line' = table[it + 1]
            /\ it' = it + 1
            /\ pc' = "search"
       ELSE /\ pc' = "footer"
            /\ UNCHANGED <<it, i, line>>
  /\ UNCHANGED <<table, m, out>>

\* line 112
SearchLine ==
  /\ pc = "search"
  /\ m' = Search(line)
  /\ pc' = "emit"
  /\ UNCHANGED <<table, it, i, line, out>>

\* line 113: m.group on None raises AttributeError, which nothing catches.
PrintRow ==
  /\ pc = "emit"
  /\ IF m.matched
       THEN /\ out' = Append(out, FormatRow(m, i))
            /\ pc' = "loop"
       ELSE /\ pc' = "error"
            /\ UNCHANGED out
  /\ UNCHANGED <<table, it, i, line, m>>

\* line 114
PrintFooter ==
  /\ pc = "footer"
  /\ out' = Append(out, FooterLine)
  /\ pc' = "done"
  /\ UNCHANGED <<table, it, i, line, m>>

Next ==
  \/ PrintCount
  \/ PrintHeader
  \/ ForNext
  \/ SearchLine
  \/ PrintRow
  \/ PrintFooter

Spec == Init /\ [][Next]_vars

\* The interpreter runs the next statement whenever there is one.
FairSpec == Init /\ [][Next]_vars /\ WF_vars(Next)

ParseSpec == InitAny /\ [][Next]_vars

----------------------------------------------------------------------------
\* Vocabulary of the properties.

\* The row lines on standard output: everything after the count line and the
\* opening line, short of the closing line once that is written.
RowLines == SubSeq(out, 3, IF pc = "done" THEN Len(out) - 1 ELSE Len(out))

\* Rows whose loop body has run to its end.
RowsDone == IF pc \in {"search", "emit", "error"} THEN it - 1 ELSE it

\* Lines on standard output: print ends each text with one line feed, and
\* every line feed inside a text ends a line too.
LinesIn(o) ==
  Len(o) + Cardinality(UNION {{k} \X {j \in 1..Len(o[k]) : o[k][j] = "\n"} :
                                k \in 1..Len(o)})

HasSpace(s) == \E k \in 1..Len(s) : IsSpace(s[k])

HasLF(s) == \E k \in 1..Len(s) : s[k] = "\n"

EndsInLF(s) == s # <<>> /\ s[Len(s)] = "\n"

EndsInDigit(s) == s # <<>> /\ IsDigit(s[Len(s)])

\* The longest suffix of s made of digits.
RECURSIVE TrailingDigits(_)
TrailingDigits(s) ==
  IF EndsInDigit(s)
    THEN TrailingDigits(SubSeq(s, 1, Len(s) - 1)) \o <<s[Len(s)]>>
    ELSE <<>>

\* Index of the first whitespace character of s, which has one.
FirstSpace(s) ==
  CHOOSE k \in 1..Len(s) :
    IsSpace(s[k]) /\ \A j \in 1..(k - 1) : ~IsSpace(s[j])

\* Index of the last character of the whitespace run that starts at f.
LastOfRun(s, f) ==
  CHOOSE k \in f..Len(s) :
    /\ \A j \in f..k : IsSpace(s[j])
    /\ k = Len(s) \/ ~IsSpace(s[k + 1])

IsPrefix(p, s) == Len(p) <= Len(s) /\ p = SubSeq(s, 1, Len(p))

\* The key of a row line: the text between its first two grave accents.
KeyOf(l) ==
  LET e == CHOOSE k \in 3..Len(l) :
             l[k] = Grave /\ \A j \in 3..(k - 1) : l[j] # Grave
  IN SubSeq(l, 3, e - 1)

\* A decimal number right-justified in three columns.
RECURSIVE InThreeColumns(_)
InThreeColumns(d) == IF Len(d) >= 3 THEN d ELSE InThreeColumns(<<" ">> \o d)

----------------------------------------------------------------------------
\* C1: the k-th row line on standard output (k from 0) is the line made from
\* table row k and carries index k; the number of row lines is the number of
\* rows the loop has finished, and all rows when the program is done.
C1_RowsInTableOrder ==
  /\ Len(RowLines) = RowsDone
  /\ pc = "done" => Len(RowLines) = Len(table)
  /\ \A k \in 1..Len(RowLines) :
       LET mo == Search(table[k])
       IN /\ KeyOf(RowLines[k]) = mo.g1
          /\ RowLines[k] = FormatRow(mo, k - 1)

C1_Witness ==
  /\ pc = "done"
  /\ Len(RowLines) = 73
  /\ KeyOf(RowLines[73]) = <<"\"">>

\* C2 as stated: when the program has finished, it has written as many lines
\* as the table has rows, plus 2.
C2_Original == pc = "done" => LinesIn(out) = Len(table) + 2

\* C2 amended: when the program has finished, it has written as many lines
\* as the table has rows, plus 3: the count line, the opening line and the
\* closing line.
C2_LineCount == pc = "done" => LinesIn(out) = Len(table) + 3

C2_Witness == pc = "done" /\ LinesIn(out) = 76 /\ out[1] = CountLine(73)

\* C3 as stated: the pattern matches every string, so no row takes the
\* no-match path and no run ends in an error.
C3_Original == (pc = "emit" => m.matched) /\ pc # "error"

\* C3 amended: the pattern matches every string that has a whitespace
\* character and no line feed, and no string without a whitespace character;
\* a row it does not match makes line 113 raise.
C3_MatchNeedsSpace ==
  /\ pc = "emit" =>
       /\ (HasSpace(line) /\ ~HasLF(line)) => m.matched
       /\ ~HasSpace(line) => ~m.matched
  /\ pc = "error" => ~m.matched /\ (~HasSpace(line) \/ HasLF(line))

C3_Witness ==
  /\ pc = "emit"
  /\ m.matched
  /\ HasSpace(line)
  /\ ~HasLF(line)
  /\ Len(line) >= 3

\* C4: on the table as written no row fails to match, the program never is in
\* the error state, and it ends having taken every row and written the
\* closing line last.
C4_RunsToCompletion ==
  /\ [](pc # "error")
  /\ <>(pc = "done" /\ it = Len(table) /\ out[Len(out)] = FooterLine)

C4_Witness == pc = "done" /\ it = 73 /\ out[Len(out)] = FooterLine

\* The page group of a match is as claim C5 describes for row s.
PageGroupIsTrailingRun(s, mo) ==
  IF EndsInDigit(s)
    THEN mo.has3 /\ mo.g3 = TrailingDigits(s)
    ELSE ~mo.has3

\* C5 as stated: for every row the pattern matches, the page group is the
\* whole run of digits at the end of the row when the row ends in a digit,
\* and absent when it does not.
C5_Original ==
  (pc = "emit" /\ m.matched) => PageGroupIsTrailingRun(line, m)

\* C5 amended: the same, for every matched row that does not end in a line
\* feed.
C5_PageGroup ==
  (pc = "emit" /\ m.matched /\ ~EndsInLF(line)) =>
    PageGroupIsTrailingRun(line, m)

C5_Witness ==
  /\ pc = "emit"
  /\ m.matched
  /\ ~EndsInLF(line)
  /\ Len(m.g3) = 2
  /\ \E k \in 1..Len(m.g1) : IsDigit(m.g1[k])

\* The name is the text before the first whitespace run of s and the rest of
\* the match starts right after that whole run.
NameIsFirstToken(s, mo) ==
  LET f == FirstSpace(s)
      l == LastOfRun(s, f)
  IN /\ mo.matched
     /\ mo.g1 = SubSeq(s, 1, f - 1)
     /\ \A k \in 1..Len(mo.g1) : ~IsSpace(mo.g1[k])
     /\ IsPrefix(mo.g2 \o mo.g3, SubSeq(s, l + 1, Len(s)))

\* C6 as stated: for every row with a whitespace character, the name is the
\* text before the first whitespace run and the middle text starts right
\* after that whole run.
C6_Original ==
  (pc = "emit" /\ HasSpace(line)) => NameIsFirstToken(line, m)

\* C6 amended: the same, for every row with a whitespace character and no
\* line feed; there the middle text and the page number together are all of
\* the row after the run.
C6_NameGroup ==
  (pc = "emit" /\ HasSpace(line) /\ ~HasLF(line)) =>
    /\ NameIsFirstToken(line, m)
    /\ m.g2 \o m.g3 =
         SubSeq(line, LastOfRun(line, FirstSpace(line)) + 1, Len(line))

C6_Witness ==
  /\ pc = "emit"
  /\ ~HasLF(line)
  /\ m.matched
  /\ m.g1 # <<>>
  /\ m.g2 # <<>>
  /\ IsSpace(line[Len(m.g1) + 2])

\* 'm moveto Begin new subpath 59'
RowM ==
  <<"m", " ", "m", "o", "v", "e", "t", "o", " ", "B", "e", "g", "i", "n", " ",
    "n", "e", "w", " ", "s", "u", "b", "p", "a", "t", "h", " ", "5", "9">>

\* 'moveto Begin new subpath'
MiddleClaimedM ==
  <<"m", "o", "v", "e", "t", "o", " ", "B", "e", "g", "i", "n", " ", "n", "e",
    "w", " ", "s", "u", "b", "p", "a", "t", "h">>

\* 'moveto Begin new subpath '
MiddleM ==
  <<"m", "o", "v", "e", "t", "o", " ", "B", "e", "g", "i", "n", " ", "n", "e",
    "w", " ", "s", "u", "b", "p", "a", "t", "h", " ">>

\* The tab, then the text shown for that row with index 36, then a blank.
RowLineM ==
  <<"\t", Grave, "m", Grave, ":", " ", "f", "a", "l", "s", "e", ",", " ", " ",
    "/", "/", " ", " ", "3", "6", ":", " ", "m", "o", "v", "e", "t", "o", " ",
    "B", "e", "g", "i", "n", " ", "n", "e", "w", " ", "s", "u", "b", "p", "a",
    "t", "h", " ">>

\* C7 as stated: row `m moveto Begin new subpath 59` is emitted with name m,
\* middle text `moveto Begin new subpath` and index 41.
C7_Original ==
  (pc = "emit" /\ line = RowM) =>
    /\ m.matched
    /\ m.g1 = <<"m">>
    /\ m.g2 = MiddleClaimedM
    /\ i = 41

\* C7 amended: that row is row 36 of the table; it is emitted with name m,
\* value false, index 36 and the middle text `moveto Begin new subpath `,
\* which keeps the blank that stood before the page number.
C7_RowM ==
  /\ (pc = "emit" /\ line = RowM) =>
       /\ m.matched
       /\ m.g1 = <<"m">>
       /\ m.g2 = MiddleM
       /\ i = 36
  /\ (pc = "loop" /\ line = RowM) =>
       out[Len(out)] = RowLineM

C7_Witness == pc = "loop" /\ line = RowM /\ Len(RowLines) = 37

\* C8 as stated: for the row of the single-quote operator the name group is
\* ' and the page group is absent.
C8_Original ==
  (pc = "emit" /\ line # <<>> /\ line[1] = "'") =>
    m.matched /\ m.g1 = <<"'">> /\ ~m.has3

\* C8 amended: for that row the name group is ' and the page group is 109.
C8_QuoteRow ==
  (pc = "emit" /\ line # <<>> /\ line[1] = "'") =>
    m.matched /\ m.g1 = <<"'">> /\ m.has3 /\ m.g3 = <<"1", "0", "9">>

C8_Witness == pc = "emit" /\ line # <<>> /\ line[1] = "'" /\ m.has3

\* C9 as stated: a row line is the name between grave accents, a colon,
\* `false,`, two blanks, `//`, the index in three columns, a colon, a blank
\* and the middle text.
C9_Original ==
  (pc = "loop" /\ i # Unbound) =>
    out[Len(out)] =
      <<Grave>> \o m.g1 \o <<Grave, ":">>
        \o <<"f", "a", "l", "s", "e", ",">> \o <<" ", " ">> \o <<"/", "/">>
        \o InThreeColumns(FmtD(i)) \o <<":", " ">> \o m.g2

\* C9 amended: a row line is a tab, the name between grave accents, a colon,
\* a blank, `false,`, two blanks, `//`, a blank, the index in three columns,
\* a colon, a blank and the middle text, which leaves out the page number;
\* the value is false for every row.
C9_RowLineShape ==
  (pc = "loop" /\ i # Unbound) =>
    /\ out[Len(out)] =
         <<"\t">> \o <<Grave>> \o m.g1 \o <<Grave, ":">> \o <<" ">>
           \o <<"f", "a", "l", "s", "e", ",">> \o <<" ", " ">> \o <<"/", "/">>
           \o <<" ">> \o InThreeColumns(FmtD(i)) \o <<":", " ">> \o m.g2

C9_Witness ==
  /\ pc = "loop"
  /\ i = 1
  /\ m.has3
  /\ m.g1 # <<>>
  /\ m.g2 # <<>>

\* C10: the keys of the row lines written for the table are pairwise
\* distinct, letter case counting, and none is empty.
C10_DistinctKeys ==
  LET keys == [k \in 1..Len(RowLines) |-> KeyOf(RowLines[k])]
  IN \A j \in 1..Len(RowLines) :
       /\ keys[j] # <<>>
       /\ \A k \in 1..Len(RowLines) : j # k => keys[j] # keys[k]

C10_Witness ==
  /\ pc = "done"
  /\ Len(RowLines) = 73
  /\ KeyOf(RowLines[1]) = <<"b">>
  /\ KeyOf(RowLines[2]) = <<"B">>

====
